---- MODULE Spec2Model ----
(***************************************************************************)
(* The video-generation request pipeline of the AI VidCV backend           *)
(* (src/main.py): create_video, the provider client _call_videotok_api and *)
(* the Record Store it writes to.  Concurrent invocations of create_video  *)
(* are interleaved at their I/O points (store writes, provider call).      *)
(***************************************************************************)
EXTENDS Integers, Sequences, FiniteSets, TLC

\* ---------------------------------------------------------------- bounds
\* Number of create_video invocations that may be in flight.
NumInvocations == 2

Invocations == 1..NumInvocations

\* ------------------------------------------------------------- constants
MinDuration == 5
MaxDuration == 120
FreeMaxDuration == 20
ShortSampleMax == 6
HttpOk == 200

Plans == {"free", "premium", "pro"}

\* Durations the requests are drawn from: both ends of the validated range,
\* both sides of the two thresholds of create_video, and 10.
DurationSamples ==
  {MinDuration, ShortSampleMax, ShortSampleMax + 1, 10,
   FreeMaxDuration, FreeMaxDuration + 1, MaxDuration}

\* VideoRequest, as far as create_video branches on it.
VideoRequest ==
  {r \in [plan : Plans, duration_sec : DurationSamples] :
      r.duration_sec >= MinDuration /\ r.duration_sec <= MaxDuration}

SHORT_SAMPLE == "https://samplelib.com/lib/preview/mp4/sample-5s.mp4"
LONG_SAMPLE == "https://samplelib.com/lib/preview/mp4/sample-10s.mp4"
FALLBACK_THUMBNAIL ==
  "https://images.unsplash.com/photo-1525547719571-a2d4ac8945e2?w=600&q=60&auto=format&fit=crop"

\* ------------------------------------------------------ JSON / Python values
PyNone == [kind |-> "null"]
JNum(n) == [kind |-> "number", num |-> n]
JStr(s) == [kind |-> "string", str |-> s]
JArr(n) == [kind |-> "array", len |-> n]
JObj(f) == [kind |-> "object", fields |-> f]

\* Python truth value of a decoded JSON value.
Truthy(v) ==
  CASE v.kind = "null" -> FALSE
    [] v.kind = "number" -> v.num # 0
    [] v.kind = "string" -> v.str # ""
    [] v.kind = "array" -> v.len > 0
    [] v.kind = "object" -> DOMAIN v.fields # {}

\* dict.get(key): the value, or None when the key is missing.
DictGet(v, key) == IF key \in DOMAIN v.fields THEN v.fields[key] ELSE PyNone

\* Optional[str] field of a pydantic model: a string or None validates.
IsOptionalStr(v) == v.kind \in {"string", "null"}

\* ------------------------------------------------------- provider behaviour
ProviderVideo == "https://cdn.videotok.ai/v/1.mp4"
ProviderThumb == "https://cdn.videotok.ai/t/1.jpg"

\* Decoded bodies the provider may answer with.
JsonBodies ==
  { PyNone, JNum(0), JNum(1), JArr(0), JArr(1), JStr("busy"),
    JObj(<<>>),
    JObj([error |-> JStr("quota")]),
    JObj([thumbnail_url |-> JStr(ProviderThumb)]),
    JObj([video_url |-> PyNone]),
    JObj([video_url |-> JStr("")]),
    JObj([video_url |-> JArr(1)]),
    JObj([video_url |-> JStr(ProviderVideo)]),
    JObj([video_url |-> JStr(ProviderVideo), thumbnail_url |-> PyNone]),
    JObj([video_url |-> JStr(ProviderVideo), thumbnail_url |-> JStr(ProviderThumb)]),
    JObj([video_url |-> JStr(ProviderVideo), thumbnail_url |-> JNum(1)]) }

\* What requests.post can do: raise (timeout, transport error) or answer
\* with a status code and a body that is valid JSON or not.
ProviderOutcomes ==
  { [kind |-> "timeout"], [kind |-> "transport_error"] }
  \cup { [kind |-> "http", status_code |-> HttpOk, valid_json |-> FALSE, body |-> PyNone] }
  \cup { [kind |-> "http", status_code |-> HttpOk, valid_json |-> TRUE, body |-> b] :
            b \in JsonBodies }
  \cup { [kind |-> "http", status_code |-> 500, valid_json |-> TRUE,
          body |-> JObj([video_url |-> JStr(ProviderVideo)])],
         [kind |-> "http", status_code |-> 500, valid_json |-> FALSE, body |-> PyNone] }

\* _call_videotok_api: every exception, also that of resp.json(), and every
\* status other than 200 gives None.
_call_videotok_api(o) ==
  IF o.kind # "http" THEN PyNone
  ELSE IF o.status_code = HttpOk
       THEN (IF o.valid_json THEN o.body ELSE PyNone)
       ELSE PyNone

\* ------------------------------------------------------------- Record Store
StoreOutcomes == {"ok", "unavailable"}

\* Identifier the store generates for the next inserted document.
NewId(st) == Len(st) + 1

\* create_document: durable insert, returns the generated identifier.
create_document(st, coll, by, data) ==
  Append(st, [coll |-> coll, id |-> NewId(st), by |-> by, data |-> data])

\* ------------------------------------------------------------------- state
VARIABLES
  pc,          \* position of each invocation in create_video
  req,         \* its VideoRequest
  request_id,  \* identifier returned by the request write (0: none yet)
  api_result,  \* result of _call_videotok_api
  record,      \* the VideoRecord built (<<>>: none yet)
  response,    \* what the caller got (<<>>: nothing yet)
  calls,       \* payloads this invocation sent to the provider
  store        \* the Record Store: documents in the order written

vars == <<pc, req, request_id, api_result, record, response, calls, store>>

NoRequest == [plan |-> "free", duration_sec |-> 0]

Init ==
  /\ pc = [i \in Invocations |-> "idle"]
  /\ req = [i \in Invocations |-> NoRequest]
  /\ request_id = [i \in Invocations |-> 0]
  /\ api_result = [i \in Invocations |-> PyNone]
  /\ record = [i \in Invocations |-> <<>>]
  /\ response = [i \in Invocations |-> <<>>]
  /\ calls = [i \in Invocations |-> <<>>]
  /\ store = <<>>

\* Entitlements computed from the plan.
Watermark(plan) == plan = "free"
QrAvailable(plan) == plan = "pro"
\* Variant: download also granted to premium.
Downloadable_PaidPlans(plan) == plan # "free"

Downloadable(plan) == plan = "pro"

\* Variant: the gate lets 21 seconds through.
PlanViolation_Lax(r) == r.plan = "free" /\ r.duration_sec > FreeMaxDuration + 1

\* The plan gate: free plan and more than 20 seconds.
PlanViolation(r) == r.plan = "free" /\ r.duration_sec > FreeMaxDuration

\* What the caller gets: an error status with the exception that left
\* create_video, or 200 with the returned record.
HttpError(code, exc) == <<[status_code |-> code, exc |-> exc]>>
HttpReturn(body) == <<[status_code |-> HttpOk, body |-> body]>>

\* create_video up to the first store write: the gate and the entitlements.
Invoke(i, r) ==
  /\ pc[i] = "idle"
  /\ req' = [req EXCEPT ![i] = r]
  /\ IF PlanViolation(r)
     THEN /\ response' = [response EXCEPT ![i] = HttpError(400, "HTTPException")]
          /\ pc' = [pc EXCEPT ![i] = "done"]
     ELSE /\ pc' = [pc EXCEPT ![i] = "persist_request"]
          /\ UNCHANGED response
  /\ UNCHANGED <<request_id, api_result, record, calls, store>>

\* Variant: an identical request already stored is reused, not written again.
PersistRequest_Dedup(i, outcome) ==
  /\ pc[i] = "persist_request"
  /\ LET same == {k \in 1..Len(store) :
                    store[k].coll = "videorequest" /\ store[k].data = req[i]}
     IN IF outcome = "ok"
        THEN /\ IF same = {}
                THEN /\ store' = create_document(store, "videorequest", i, req[i])
                     /\ request_id' = [request_id EXCEPT ![i] = NewId(store)]
                ELSE /\ store' = store
                     /\ request_id' = [request_id EXCEPT ![i] =
                                         store[CHOOSE k \in same : TRUE].id]
             /\ pc' = [pc EXCEPT ![i] = "call_provider"]
             /\ UNCHANGED response
        ELSE /\ response' = [response EXCEPT ![i] = HttpError(500, "PersistenceFailure")]
             /\ pc' = [pc EXCEPT ![i] = "done"]
             /\ UNCHANGED <<store, request_id>>
  /\ UNCHANGED <<req, api_result, record, calls>>

\* request_id = create_document("videorequest", req.model_dump())
PersistRequest(i, outcome) ==
  /\ pc[i] = "persist_request"
  /\ IF outcome = "ok"
     THEN /\ store' = create_document(store, "videorequest", i, req[i])
          /\ request_id' = [request_id EXCEPT ![i] = NewId(store)]
          /\ pc' = [pc EXCEPT ![i] = "call_provider"]
          /\ UNCHANGED response
     ELSE /\ response' = [response EXCEPT ![i] = HttpError(500, "PersistenceFailure")]
          /\ pc' = [pc EXCEPT ![i] = "done"]
          /\ UNCHANGED <<store, request_id>>
  /\ UNCHANGED <<req, api_result, record, calls>>

\* Variant: the provider is called although the request write is still due.
CallProvider_Early(i, o) ==
  /\ pc[i] \in {"persist_request", "call_provider"}
  /\ calls' = [calls EXCEPT ![i] =
        Append(@, [duration |-> req[i].duration_sec,
                   watermark |-> Watermark(req[i].plan)])]
  /\ api_result' = [api_result EXCEPT ![i] = _call_videotok_api(o)]
  /\ pc' = [pc EXCEPT ![i] = "build_record"]
  /\ UNCHANGED <<req, request_id, record, response, store>>

\* api_result = _call_videotok_api(prompt, req.duration_sec, watermark)
CallProvider(i, o) ==
  /\ pc[i] = "call_provider"
  /\ calls' = [calls EXCEPT ![i] =
        Append(@, [duration |-> req[i].duration_sec,
                   watermark |-> Watermark(req[i].plan)])]
  /\ api_result' = [api_result EXCEPT ![i] = _call_videotok_api(o)]
  /\ pc' = [pc EXCEPT ![i] = "build_record"]
  /\ UNCHANGED <<req, request_id, record, response, store>>

\* Variant: the short bucket ends below 6.
FallbackVideo_Strict(d) == IF d < ShortSampleMax THEN SHORT_SAMPLE ELSE LONG_SAMPLE

\* The fallback locators for a duration.
FallbackVideo(d) == IF d <= ShortSampleMax THEN SHORT_SAMPLE ELSE LONG_SAMPLE

\* api_result.get("video_url") is evaluated only when api_result is truthy;
\* a truthy value that is not a dict has no get and raises AttributeError.
GetRaises(res) == Truthy(res) /\ res.kind # "object"

UseProvider(res) ==
  /\ Truthy(res)
  /\ res.kind = "object"
  /\ Truthy(DictGet(res, "video_url"))

VideoUrl(res, d) ==
  IF UseProvider(res) THEN DictGet(res, "video_url") ELSE JStr(FallbackVideo(d))

ThumbnailUrl(res) ==
  IF UseProvider(res) THEN DictGet(res, "thumbnail_url") ELSE JStr(FALLBACK_THUMBNAIL)

\* Variant: the record does not carry the identifier of its request.
MakeRecord_NoId(rid, res, r) ==
  [request_id |-> 0,
   status |-> "completed",
   video_url |-> VideoUrl(res, r.duration_sec),
   thumbnail_url |-> ThumbnailUrl(res),
   plan |-> r.plan,
   qr_available |-> QrAvailable(r.plan),
   downloadable |-> Downloadable(r.plan)]

MakeRecord(rid, res, r) ==
  [request_id |-> rid,
   status |-> "completed",
   video_url |-> VideoUrl(res, r.duration_sec),
   thumbnail_url |-> ThumbnailUrl(res),
   plan |-> r.plan,
   qr_available |-> QrAvailable(r.plan),
   downloadable |-> Downloadable(r.plan)]

\* VideoRecord(...) validates its fields.
ValidRecord(rec) ==
  /\ IsOptionalStr(rec.video_url)
  /\ IsOptionalStr(rec.thumbnail_url)
  /\ rec.status \in {"queued", "processing", "completed", "failed"}
  /\ rec.plan \in Plans

\* The branch on api_result and the construction of the VideoRecord; this
\* is the last use of api_result.
BuildRecord(i) ==
  /\ pc[i] = "build_record"
  /\ LET res == api_result[i]
         rec == MakeRecord(request_id[i], res, req[i])
     IN IF GetRaises(res)
        THEN /\ response' = [response EXCEPT ![i] = HttpError(500, "AttributeError")]
             /\ pc' = [pc EXCEPT ![i] = "done"]
             /\ UNCHANGED record
        ELSE IF ~ValidRecord(rec)
        THEN /\ response' = [response EXCEPT ![i] = HttpError(500, "ValidationError")]
             /\ pc' = [pc EXCEPT ![i] = "done"]
             /\ UNCHANGED record
        ELSE /\ record' = [record EXCEPT ![i] = <<rec>>]
             /\ pc' = [pc EXCEPT ![i] = "persist_record"]
             /\ UNCHANGED response
  /\ api_result' = [api_result EXCEPT ![i] = PyNone]
  /\ UNCHANGED <<req, request_id, calls, store>>

\* Variant: a failed record write is swallowed and the record returned.
PersistRecord_Swallow(i, outcome) ==
  /\ pc[i] = "persist_record"
  /\ IF outcome = "ok"
     THEN store' = create_document(store, "videorecord", i, record[i][1])
     ELSE store' = store
  /\ pc' = [pc EXCEPT ![i] = "return"]
  /\ UNCHANGED <<req, request_id, api_result, record, response, calls>>

\* create_document("videorecord", record.model_dump())
PersistRecord(i, outcome) ==
  /\ pc[i] = "persist_record"
  /\ IF outcome = "ok"
     THEN /\ store' = create_document(store, "videorecord", i, record[i][1])
          /\ pc' = [pc EXCEPT ![i] = "return"]
          /\ UNCHANGED response
     ELSE /\ response' = [response EXCEPT ![i] = HttpError(500, "PersistenceFailure")]
          /\ pc' = [pc EXCEPT ![i] = "done"]
          /\ UNCHANGED store
  /\ UNCHANGED <<req, request_id, api_result, record, calls>>

\* return record.model_dump()
Return(i) ==
  /\ pc[i] = "return"
  /\ response' = [response EXCEPT ![i] = HttpReturn(record[i][1])]
  /\ pc' = [pc EXCEPT ![i] = "done"]
  /\ UNCHANGED <<req, request_id, api_result, record, calls, store>>

Next ==
  \/ \E i \in Invocations, r \in VideoRequest : Invoke(i, r)
  \/ \E i \in Invocations, outcome \in StoreOutcomes : PersistRequest(i, outcome)
  \/ \E i \in Invocations, o \in ProviderOutcomes : CallProvider(i, o)
  \/ \E i \in Invocations : BuildRecord(i)
  \/ \E i \in Invocations, outcome \in StoreOutcomes : PersistRecord(i, outcome)
  \/ \E i \in Invocations : Return(i)

Spec == Init /\ [][Next]_vars

TypeOK ==
  /\ pc \in [Invocations -> {"idle", "persist_request", "call_provider",
                             "build_record", "persist_record", "return", "done"}]
  /\ \A i \in Invocations : Len(record[i]) <= 1 /\ Len(response[i]) <= 1

\* ------------------------------------------------------------ observations
\* Positions in the store of the documents an invocation wrote.
ReqDocs(st, i) ==
  {k \in 1..Len(st) : st[k].coll = "videorequest" /\ st[k].by = i}

RecDocs(st, i) ==
  {k \in 1..Len(st) : st[k].coll = "videorecord" /\ st[k].by = i}

Returned(i) == response[i] # <<>> /\ response[i][1].status_code = HttpOk

FailedWith(i, exc) ==
  /\ response[i] # <<>>
  /\ response[i][1].status_code # HttpOk
  /\ response[i][1].exc = exc

Body(i) == response[i][1].body

\* The request is over the free plan's cap.
OverFreeCap(r) == r.plan = "free" /\ r.duration_sec > 20 /\ r.duration_sec <= 120

\* C1: a free-plan request of more than 20 seconds ends with the 400 client
\* error, and no request document, no record document and no provider call
\* was made for it.
C1_FreeCapRejected ==
  \A i \in Invocations :
    (pc[i] # "idle" /\ OverFreeCap(req[i])) =>
      /\ pc[i] = "done"
      /\ response[i] = HttpError(400, "HTTPException")
      /\ ReqDocs(store, i) = {}
      /\ RecDocs(store, i) = {}
      /\ calls[i] = <<>>

\* A free request of 25 > 20 seconds' kind (21 here) was rejected while the
\* other invocation did write to the store.
C1_Witness ==
  \E i \in Invocations :
    /\ req[i] = [plan |-> "free", duration_sec |-> 21]
    /\ FailedWith(i, "HTTPException")
    /\ Len(store) > 0

\* C2 (as claimed): a premium or pro request, the store being available,
\* always ends with a returned record of status completed, whatever the
\* provider answered.
C2_AlwaysCompleted ==
  \A i \in Invocations :
    (pc[i] = "done" /\ req[i].plan \in {"premium", "pro"}
       /\ ~FailedWith(i, "PersistenceFailure")) =>
      (Returned(i) /\ Body(i).status = "completed")

\* The plan table of the data model.
PlanTable(plan) ==
  CASE plan = "free" -> [watermark |-> TRUE, qr_available |-> FALSE, downloadable |-> FALSE]
    [] plan = "premium" -> [watermark |-> FALSE, qr_available |-> FALSE, downloadable |-> FALSE]
    [] plan = "pro" -> [watermark |-> FALSE, qr_available |-> TRUE, downloadable |-> TRUE]

\* C3: a returned record has the request's plan and the flags of the plan
\* table, the persisted record document too, and the watermark sent to the
\* provider is that of the plan table (true exactly for free).
C3_Entitlements ==
  \A i \in Invocations :
    /\ Returned(i) =>
         /\ Body(i).plan = req[i].plan
         /\ Body(i).qr_available = PlanTable(req[i].plan).qr_available
         /\ Body(i).downloadable = PlanTable(req[i].plan).downloadable
    /\ \A k \in RecDocs(store, i) :
         /\ store[k].data.plan = req[i].plan
         /\ store[k].data.qr_available = PlanTable(req[i].plan).qr_available
         /\ store[k].data.downloadable = PlanTable(req[i].plan).downloadable
    /\ \A n \in 1..Len(calls[i]) :
         /\ calls[i][n].watermark = PlanTable(req[i].plan).watermark
         /\ calls[i][n].watermark = (req[i].plan = "free")

\* A pro request of 5 seconds returned on the fallback branch with both
\* flags set, and a premium request returned on the provider branch.
C3_Witness ==
  \E i, j \in Invocations :
    /\ Returned(i) /\ req[i] = [plan |-> "pro", duration_sec |-> 5]
    /\ Body(i).video_url = JStr(SHORT_SAMPLE)
    /\ Body(i).qr_available /\ Body(i).downloadable
    /\ Returned(j) /\ req[j].plan = "premium"
    /\ Body(j).video_url = JStr(ProviderVideo)
    /\ ~Body(j).qr_available /\ ~Body(j).downloadable

\* C4: every record document has exactly one request document whose id is
\* its request_id; that document was written earlier, by the same
\* invocation; and no other record document has the same request_id.
C4_RecordHasOneRequest ==
  \A k \in 1..Len(store) :
    store[k].coll = "videorecord" =>
      LET owners == {j \in 1..Len(store) :
                       /\ store[j].coll = "videorequest"
                       /\ store[j].id = store[k].data.request_id}
      IN /\ Cardinality(owners) = 1
         /\ \A j \in owners : j < k /\ store[j].by = store[k].by
                                /\ store[j].data = req[store[k].by]
         /\ \A k2 \in 1..Len(store) :
              (store[k2].coll = "videorecord" /\ k2 # k) =>
                 store[k2].data.request_id # store[k].data.request_id

\* Two invocations interleaved: both requests written, then the records in
\* the opposite order.
C4_Witness ==
  /\ Len(store) = 4
  /\ store[1].coll = "videorequest" /\ store[2].coll = "videorequest"
  /\ store[3].coll = "videorecord" /\ store[4].coll = "videorecord"
  /\ store[1].by = store[4].by /\ store[2].by = store[3].by
  /\ store[1].by # store[2].by

\* Gate passed and no store failure: the run was not cut short by design.
RanToEnd(i) ==
  /\ pc[i] = "done"
  /\ ~FailedWith(i, "HTTPException")
  /\ ~FailedWith(i, "PersistenceFailure")

\* C5 (as claimed): an invocation that passed the gate, the store being
\* available, has made exactly one request-document write, at most one
\* provider call and exactly one record-document write.
C5_ExactlyOncePerInvocation ==
  \A i \in Invocations :
    RanToEnd(i) =>
      /\ Cardinality(ReqDocs(store, i)) = 1
      /\ Len(calls[i]) <= 1
      /\ Cardinality(RecDocs(store, i)) = 1

\* C6 (as claimed): no answer of the provider makes create_video fail: it
\* ends with an error only at the plan gate or on a store failure, and
\* otherwise returns a record.
C6_ProviderFailureSwallowed ==
  \A i \in Invocations :
    pc[i] = "done" =>
      \/ Returned(i)
      \/ FailedWith(i, "HTTPException")
      \/ FailedWith(i, "PersistenceFailure")

\* The provider's result carries a video locator: a non-empty string.
HasVideoLocator(res) ==
  /\ res.kind = "object"
  /\ "video_url" \in DOMAIN res.fields
  /\ res.fields["video_url"].kind = "string"
  /\ res.fields["video_url"].str # ""

\* C7: when a record is built, either the provider's result has a video
\* locator and the record carries it with the provider's thumbnail (None
\* if there is none), or the record carries the fallback pair: the short
\* sample for at most 6 seconds, the long sample above; 5 gives short and
\* 10 gives long.
C7_Locators ==
  [][\A i \in Invocations :
       (pc[i] = "build_record" /\ pc'[i] = "persist_record") =>
         LET res == api_result[i]
             rec == record'[i][1]
             d == req[i].duration_sec
         IN IF HasVideoLocator(res)
            THEN /\ rec.video_url = res.fields["video_url"]
                 /\ rec.thumbnail_url =
                      (IF "thumbnail_url" \in DOMAIN res.fields
                       THEN res.fields["thumbnail_url"] ELSE PyNone)
                 /\ rec.video_url \notin {JStr(SHORT_SAMPLE), JStr(LONG_SAMPLE)}
            ELSE /\ rec.thumbnail_url = JStr(FALLBACK_THUMBNAIL)
                 /\ (d <= 6 => rec.video_url = JStr(SHORT_SAMPLE))
                 /\ (d > 6 => rec.video_url = JStr(LONG_SAMPLE))
                 /\ (d = 5 => rec.video_url = JStr(SHORT_SAMPLE))
                 /\ (d = 10 => rec.video_url = JStr(LONG_SAMPLE))]_vars

\* A 6-second request fell back to the short sample, and a 10-second one
\* got the provider's video without a thumbnail.
C7_Witness ==
  \E i, j \in Invocations :
    /\ pc[i] = "persist_record" /\ req[i].duration_sec = 6
    /\ record[i][1].video_url = JStr(SHORT_SAMPLE)
    /\ record[i][1].thumbnail_url = JStr(FALLBACK_THUMBNAIL)
    /\ pc[j] = "persist_record" /\ req[j].duration_sec = 10
    /\ record[j][1].video_url = JStr(ProviderVideo)
    /\ record[j][1].thumbnail_url = PyNone

\* C8: two invocations that returned for the same request returned
\* different request_ids, and each has its own request document and its
\* own record document in the store.
C8_NotIdempotent ==
  \A i, j \in Invocations :
    (i # j /\ Returned(i) /\ Returned(j) /\ req[i] = req[j]) =>
      /\ Body(i).request_id # Body(j).request_id
      /\ Cardinality(ReqDocs(store, i) \cup ReqDocs(store, j)) = 2
      /\ Cardinality(RecDocs(store, i) \cup RecDocs(store, j)) = 2
      /\ \A k \in ReqDocs(store, i) : store[k].id = Body(i).request_id
      /\ \A k \in ReqDocs(store, j) : store[k].id = Body(j).request_id
      /\ \A k \in RecDocs(store, i) : store[k].data = Body(i)
      /\ \A k \in RecDocs(store, j) : store[k].data = Body(j)

\* Two invocations returned for the same request and got the same content.
C8_Witness ==
  \E i, j \in Invocations :
    /\ i # j /\ Returned(i) /\ Returned(j) /\ req[i] = req[j]
    /\ Body(i).video_url = Body(j).video_url

\* The store only grows: what was written stays as written.
StoreKept == 
  /\ Len(store') >= Len(store)
  /\ \A k \in 1..Len(store) : store'[k] = store[k]

\* C9: the provider is called only once the invocation's request document
\* is in the store, the record document is written only after the provider
\* call, the record is returned only after its document is written, and
\* no step removes or changes a written document.
C9_StepOrder ==
  [][/\ StoreKept
     /\ \A i \in Invocations :
          /\ calls'[i] # calls[i] =>
               /\ Cardinality(ReqDocs(store, i)) = 1
               /\ RecDocs(store, i) = {}
               /\ calls[i] = <<>>
          /\ RecDocs(store', i) # RecDocs(store, i) =>
               /\ Cardinality(ReqDocs(store, i)) = 1
               /\ Len(calls[i]) = 1
               /\ response[i] = <<>>
          /\ (response'[i] # response[i] /\ response'[i][1].status_code = HttpOk) =>
               /\ Cardinality(RecDocs(store, i)) = 1
               /\ \A k \in RecDocs(store, i) : ReqDocs(store, i) = {j \in ReqDocs(store, i) : j < k}
          /\ (ReqDocs(store', i) # ReqDocs(store, i)) =>
               (calls[i] = <<>> /\ ReqDocs(store, i) = {})]_vars

\* An invocation whose provider call ended in an error of create_video
\* still has its request document in the store.
C9_Witness ==
  \E i, j \in Invocations :
    /\ FailedWith(i, "AttributeError")
    /\ Cardinality(ReqDocs(store, i)) = 1
    /\ Returned(j)

\* A step in which the invocation's store write failed: it stood at a
\* write and moved without the store changing.
WriteFailed(i, at) == pc[i] = at /\ pc'[i] # at /\ store' = store

\* C10: a failed store write ends the run at once with a server error;
\* after a failed request write there is no provider call and no document of
\* the invocation; after a failed record write there is the request
\* document and no record document, and nothing is returned.
C10_StoreFailurePropagates ==
  [][\A i \in Invocations :
       /\ WriteFailed(i, "persist_request") =>
            /\ pc'[i] = "done"
            /\ response'[i] = HttpError(500, "PersistenceFailure")
            /\ calls'[i] = <<>>
            /\ ReqDocs(store', i) = {} /\ RecDocs(store', i) = {}
       /\ WriteFailed(i, "persist_record") =>
            /\ pc'[i] = "done"
            /\ response'[i] = HttpError(500, "PersistenceFailure")
            /\ Cardinality(ReqDocs(store', i)) = 1
            /\ RecDocs(store', i) = {}
            /\ \A k \in 1..Len(store') :
                 store'[k].coll = "videorecord" =>
                   store'[k].data.request_id # request_id[i]
       /\ pc[i] = "done" => (pc'[i] = "done" /\ response'[i] = response[i]
                               /\ ReqDocs(store', i) = ReqDocs(store, i)
                               /\ RecDocs(store', i) = RecDocs(store, i)
                               /\ calls'[i] = calls[i])]_vars

\* One invocation failed at the request write, the other at the record
\* write, leaving its request document without a record.
C10_Witness ==
  \E i, j \in Invocations :
    /\ FailedWith(i, "PersistenceFailure") /\ ReqDocs(store, i) = {}
    /\ FailedWith(j, "PersistenceFailure") /\ Cardinality(ReqDocs(store, j)) = 1
    /\ RecDocs(store, j) = {} /\ Len(calls[j]) = 1
====
